---- MODULE Spec2Model ----
(***************************************************************************)
(* A model of the SkPy session engine (src/SkyPy/conn.py), of its         *)
(* challenge hash getMac256Hash, and of the paged retrieval of             *)
(* src/SkyPy/chat.py.                                                      *)
(*                                                                         *)
(* One step of the session machine is one HTTP request made through        *)
(* SkypeConnection.__call__ together with the Python code that runs up to  *)
(* the next request.  The server is the environment: every reply (status,  *)
(* connection failure, headers, page content) is chosen with \E.           *)
(***************************************************************************)
EXTENDS Integers, Sequences, FiniteSets, TLC

\* ------------------------------------------------------------------ bounds
MaxTime == 2     \* the clock runs 0..MaxTime
MaxTTL == 1      \* expires_in values the login server hands out: 1..MaxTTL
MaxHops == 2     \* redirects the server makes within one getRegToken call
MaxFetches == 3  \* getMsgs / recent calls in one run of the pager
MaxPage == 2     \* raw items in one page
MaxChallenge == 2  \* characters in the challenge handed to getMac256Hash
MaxCalls == 3    \* subscribe calls the application makes in a row
MaxMembers == 2  \* members in the raw group chat the object is built from

\* --------------------------------------------------------------- universes
Statuses == {201, 301, 401}
DefaultCodes == {200, 201, 207}
RegCodes == {201, 301}
API_MSGSHOST == "h0"
Hosts == {"h0", "h1"}
SkypeTokens == {"s1"}
RegTokens == {"r1", "r2"}
Endpoints == {"e1"}
AuthKinds == {"None", "Skype", "Reg"}
CodeSets == {{}, {401}}
EmptyDict == [x \in {} |-> "x"]

\* What the network hands back for one request: a connection failure, or an
\* HTTP response with a status.
\* location and head are the Location host and the Set-RegistrationToken
\* header of a reply to the registration POST, body is what a login page
\* holds ("-" on other replies).
Replies ==
  {[conn |-> FALSE, status |-> 0, location |-> "-", head |-> "-", body |-> "-"]}
  \cup [conn : {TRUE}, status : Statuses, location : {"-"}, head : {"-"}, body : {"-"}]
LoginReply(reply, body) ==
  IF reply.conn THEN [reply EXCEPT !.body = body] ELSE reply
RegReply(reply, location, head) ==
  IF reply.conn THEN [reply EXCEPT !.location = location, !.head = head] ELSE reply

\* The token cache file at process start: absent, or left by an earlier run.
NoFile == [present |-> FALSE, token |-> "s0", expiry |-> 0, host |-> "h0"]
InitialFiles ==
  {NoFile, [present |-> TRUE, token |-> "s0", expiry |-> 1, host |-> "h1"]}

VARIABLES
  now,          \* time.time(), in whole seconds
  tokens,       \* self.tokens : dict, keys among "skype", "reg"
  tokenExpiry,  \* self.tokenExpiry : dict, key "skype"
  msgsHost,     \* self.msgsHost
  msgsEndpoint, \* self.msgsEndpoint
  defHeaders,   \* the headers={} default of __call__: one dict per process
  tokenFile,    \* the tokenFile argument of the running/last constructor
  cacheFile,    \* content of the token cache file
  fileOps,      \* reads and writes of the cache file by the current top-level call
  pc,           \* where control is
  ctx,          \* which top-level call is running: "ctor", "wrap" or "none"
  wcodes,       \* codes of the resubscribeOn wrapper being run
  wauth,        \* auth used by the wrapped operation's request
  hops,         \* depth of the getRegToken recursion
  firstErr,     \* exception caught by the wrapper on the first invocation
  result,       \* what the last top-level call gave its caller
  trace,        \* requests and invocations of the current top-level call
  funcOut,      \* outcomes of the wrapped operation's invocations, this call
  lastReq,      \* the last HTTP request sent
  lastOut,      \* the outcome __call__ produced for it
  sent,         \* requests sent by the current top-level call
  syncStates,   \* the pager's stored cursor, per resource
  lastFetch,    \* the last page fetch: resource, cursor passed and returned, raw items
  returned,     \* per resource, the cursor its last successful fetch returned
  page,         \* what the last getMsgs / recent call gave its caller
  nFetch,       \* getMsgs / recent calls made so far
  challenge,    \* getMac256Hash: the challenge argument
  appId,        \* the appId argument
  hash,         \* the upper-case SHA-256 digest of challenge + key
  clearText,    \* the padded text
  pClearText,   \* its words
  sha256Hash,   \* the seed words
  macHash,      \* what cS64 returned
  mac256,       \* what getMac256Hash returned
  hpc,          \* how far the running getMac256Hash call is
  userIds,      \* SkypeGroupChat.userIds, a list
  adminIds,     \* SkypeGroupChat.adminIds, a list
  memberCall    \* the last addMember / removeMember call and its request's outcome

sessionVars == <<now, tokens, tokenExpiry, msgsHost, msgsEndpoint, defHeaders, tokenFile,
                 cacheFile, fileOps, pc, ctx, wcodes, wauth, hops, firstErr, result, trace,
                 funcOut, lastReq, lastOut, sent>>
pagerVars == <<syncStates, lastFetch, returned, page, nFetch>>
hashVars == <<challenge, appId, hash, clearText, pClearText, sha256Hash, macHash, mac256,
              hpc>>
memberVars == <<userIds, adminIds, memberCall>>
vars == <<sessionVars, pagerVars, hashVars, memberVars>>

\* --------------------------------------------------------------- outcomes
Ok(st) == [type |-> "ok", hasResp |-> TRUE, status |-> st, msg |-> "response"]
ApiExc(st) == [type |-> "api", hasResp |-> TRUE, status |-> st, msg |-> "status"]
ApiExcMsg(st, m) == [type |-> "api", hasResp |-> TRUE, status |-> st, msg |-> m]
ApiExcNoResp(m) == [type |-> "api", hasResp |-> FALSE, status |-> 0, msg |-> m]
ConnExc == [type |-> "conn", hasResp |-> FALSE, status |-> 0, msg |-> "ConnectionError"]
NoOutcome == [type |-> "none", hasResp |-> FALSE, status |-> 0, msg |-> "none"]
IsExc(o) == o.type \in {"api", "conn"}

NoReq == [kind |-> "none", host |-> "none", auth |-> "None", default |-> FALSE,
          arg |-> EmptyDict, hdrs |-> EmptyDict, codes |-> {}, time |-> 0,
          reply |-> [conn |-> FALSE, status |-> 0, location |-> "-", head |-> "-",
                    body |-> "-"]]

\* ------------------------------------------------- SkypeConnection.__call__
\* Lines 79-82: the headers dict after the auth header is written into it.
CallHeaders(auth, headers) ==
  IF auth = "Skype" THEN ("X-SkypeToken" :> tokens["skype"]) @@ headers
  ELSE IF auth = "Reg" THEN ("RegistrationToken" :> tokens["reg"]) @@ headers
  ELSE headers

\* Lines 83-86: one requests.request; the reply is returned or raised.
CallOutcomeAlwaysOk(reply, codes) ==
  IF ~reply.conn THEN ConnExc ELSE Ok(reply.status)

CallOutcome(reply, codes) ==
  IF ~reply.conn THEN ConnExc
  ELSE IF reply.status \notin codes THEN ApiExc(reply.status)
  ELSE Ok(reply.status)

\* A headers default that is a fresh empty dict after every call.
DefaultAfterFresh(auth, usesDefault) == EmptyDict

\* The default headers={} is evaluated once, at definition: a call that leaves
\* headers out writes its auth header into that one shared dict.
DefaultAfter(auth, usesDefault) ==
  IF usesDefault THEN CallHeaders(auth, defHeaders) ELSE defHeaders

\* The request as it goes out: arg is the headers argument the caller gave
\* (empty when left out), hdrs the headers sent.
Request(kind, host, auth, usesDefault, headers, codes, reply) ==
  [kind |-> kind, host |-> host, auth |-> auth, default |-> usesDefault,
   arg |-> headers,
   hdrs |-> CallHeaders(auth, IF usesDefault THEN defHeaders ELSE headers),
   codes |-> codes, time |-> now, reply |-> reply]

\* Line 83: requests.request is called once per __call__.
RequestsSent(reply, codes) == 1

\* The state change of one __call__: the request goes out, the shared default
\* dict is updated when it was used, the outcome is returned or raised.
Call(kind, host, auth, usesDefault, headers, codes, reply) ==
  /\ lastReq' = Request(kind, host, auth, usesDefault, headers, codes, reply)
  /\ lastOut' = CallOutcome(reply, codes)
  /\ defHeaders' = DefaultAfter(auth, usesDefault)
  /\ sent' = sent + RequestsSent(reply, codes)
  /\ trace' = Append(trace, kind)

\* A wrapper that hands the caller the operation's first error whenever it
\* had caught one, instead of the error that ended the call.
RaiseOriginal(e) ==
  /\ result' = IF ctx = "wrap" /\ IsExc(firstErr) THEN firstErr ELSE e
  /\ pc' = IF ctx = "ctor" THEN "dead" ELSE "ready"
  /\ ctx' = "none"

\* An exception leaves the running top-level call: a failed constructor gives
\* no connection object, a failed wrapped call leaves the connection usable.
Raise(e) ==
  /\ result' = e
  /\ pc' = IF ctx = "ctor" THEN "dead" ELSE "ready"
  /\ ctx' = "none"

Idle == pc \in {"start", "ready", "dead"}

\* ------------------------------------------------ SkypeConnection.__init__
\* Lines 50-61: fresh dicts, then the cache file is read when it exists; its
\* token is adopted only while now < expiry.
CacheUsableIgnoresExpiry(useFile) == useFile /\ cacheFile.present

CacheUsable(useFile) == useFile /\ cacheFile.present /\ now < cacheFile.expiry

\* Lines 52-54: the file is opened and read when a path was given and it
\* exists.
FileRead(useFile) == IF useFile /\ cacheFile.present THEN <<"read">> ELSE <<>>

\* Lines 63-64: the file is opened and written when a path was given.
FileWriteAlways(useFile) == <<"write">>

FileWrite(useFile) == IF useFile THEN <<"write">> ELSE <<>>

Construct(useFile) ==
  /\ Idle
  /\ tokenFile' = useFile
  /\ tokens' = IF CacheUsable(useFile) THEN ("skype" :> cacheFile.token) ELSE EmptyDict
  /\ tokenExpiry' = IF CacheUsable(useFile) THEN ("skype" :> cacheFile.expiry) ELSE EmptyDict
  /\ msgsHost' = IF CacheUsable(useFile) THEN cacheFile.host ELSE "unset"
  /\ msgsEndpoint' = "unset"
  /\ pc' = IF CacheUsable(useFile) THEN "reg" ELSE "loginGet"
  /\ ctx' = "ctor"
  /\ hops' = 0
  /\ trace' = <<>>
  /\ funcOut' = <<>>
  /\ sent' = 0
  /\ result' = NoOutcome
  /\ firstErr' = NoOutcome
  /\ fileOps' = FileRead(useFile)
  /\ UNCHANGED <<now, defHeaders, cacheFile, wcodes, wauth, lastReq, lastOut, pagerVars,
                 hashVars, memberVars>>

\* ---------------------------------------------------- SkypeConnection.login
\* Lines 92-93: a captcha field on the login page ends the login before the
\* credentials are posted.
LoginPageBlocksNever(captcha) == FALSE

LoginPageBlocks(captcha) == captcha

\* Lines 91-93: GET the login page.
LoginGet(reply, captcha) ==
  /\ pc = "loginGet"
  /\ Call("loginGET", "login", "None", TRUE, EmptyDict, DefaultCodes,
          LoginReply(reply, IF captcha THEN "captcha" ELSE "form"))
  /\ IF IsExc(lastOut') THEN Raise(lastOut')
     ELSE IF LoginPageBlocks(captcha) THEN Raise(ApiExcNoResp("Captcha required"))
     ELSE /\ pc' = "loginPost"
          /\ UNCHANGED <<ctx, result>>
  /\ UNCHANGED <<now, tokens, tokenExpiry, msgsHost, msgsEndpoint, tokenFile, cacheFile, fileOps,
                 wcodes, wauth, hops, firstErr, funcOut, pagerVars, hashVars, memberVars>>

\* Lines 96, 112-113: the expiry is the time taken before the POST plus the
\* server's expires_in.
LoginExpiry(secs, ttl) == secs + ttl

\* Lines 64-67: the cache file written after a fresh login.
WrittenFile(useFile, tok, exp, host) ==
  IF useFile THEN [present |-> TRUE, token |-> tok, expiry |-> exp, host |-> host]
  ELSE cacheFile

\* Lines 96-115 and, on success, lines 62-67 of __init__.  body is what the
\* response page holds: an error block, no skypetoken field, a skypetoken field
\* without expires_in (the token is stored before the expiry is read), or both.
LoginPost(reply, body, tok, ttl) ==
  /\ pc = "loginPost"
  /\ Call("loginPOST", "login", "None", TRUE, EmptyDict, DefaultCodes,
          LoginReply(reply, body))
  /\ IF IsExc(lastOut')
       THEN Raise(lastOut') /\ UNCHANGED <<tokens, tokenExpiry, msgsHost, cacheFile, fileOps>>
     ELSE IF body = "error"
       THEN /\ Raise(ApiExcMsg(reply.status, "Error message returned"))
            /\ UNCHANGED <<tokens, tokenExpiry, msgsHost, cacheFile, fileOps>>
     ELSE IF body = "notoken"
       THEN /\ Raise(ApiExcMsg(reply.status, "Couldn't retrieve Skype token"))
            /\ UNCHANGED <<tokens, tokenExpiry, msgsHost, cacheFile, fileOps>>
     ELSE IF body = "noexpiry"
       THEN /\ tokens' = ("skype" :> tok) @@ tokens
            /\ Raise(ApiExcMsg(reply.status, "Couldn't retrieve Skype token"))
            /\ UNCHANGED <<tokenExpiry, msgsHost, cacheFile, fileOps>>
     ELSE /\ tokens' = ("skype" :> tok) @@ tokens
          /\ tokenExpiry' = ("skype" :> LoginExpiry(now, ttl)) @@ tokenExpiry
          /\ msgsHost' = API_MSGSHOST
          /\ cacheFile' = WrittenFile(tokenFile, tok, LoginExpiry(now, ttl), API_MSGSHOST)
          /\ fileOps' = fileOps \o FileWrite(tokenFile)
          /\ pc' = "reg"
          /\ UNCHANGED <<ctx, result>>
  /\ UNCHANGED <<now, msgsEndpoint, tokenFile, wcodes, wauth, hops, firstErr, funcOut,
                 pagerVars, hashVars, memberVars>>

\* ---------------------------------------------- SkypeConnection.getRegToken
\* Lines 121-124: the two headers of the registration POST.  The LockAndKey
\* header carries the challenge time.
RegHeaders == ("LockAndKey" :> now) @@ ("Authentication" :> tokens["skype"])

\* Line 127: the step is repeated when Location names another host.
RedirectedNever(location, host) == FALSE

Redirected(location, host) == location # host

\* Line 130 (and 129: the repeated step stores its own token).
StoredRegToken(head) == head

\* What follows a completed getRegToken: makeEndpoint in __init__ (lines
\* 68-69), subscribe in the wrapper (lines 38-39 and 44-45).
AfterRegTokenSkipsEndpoint(c) == "sub"

AfterRegToken(c) == IF c = "ctor" THEN "endpoint" ELSE "sub"

\* Line 123: the headers of the POST are built from self.tokens["skype"]
\* before anything is sent; a dict without that key raises KeyError there.
KeyError == [type |-> "key", hasResp |-> FALSE, status |-> 0, msg |-> "KeyError"]

\* Lines 120-130, one POST per step; the recursion of line 129 is the step
\* taken again with hops + 1.  The server redirects at most MaxHops times.
GetRegToken(reply, location, head) ==
  /\ pc = "reg"
  /\ Redirected(location, msgsHost) => hops < MaxHops
  /\ IF "skype" \notin DOMAIN tokens
       THEN /\ Raise(KeyError)
            /\ UNCHANGED <<tokens, msgsHost, hops, lastReq, lastOut, defHeaders, sent,
                           trace>>
     ELSE /\ Call(IF hops = 0 THEN "regPOST" ELSE "regRePOST", msgsHost, "None", FALSE,
                  RegHeaders, RegCodes, RegReply(reply, location, head))
          /\ IF IsExc(lastOut')
               THEN Raise(lastOut') /\ UNCHANGED <<tokens, msgsHost, hops>>
             ELSE IF Redirected(location, msgsHost)
               THEN /\ msgsHost' = location
                    /\ hops' = hops + 1
                    /\ UNCHANGED <<tokens, pc, ctx, result>>
             ELSE /\ tokens' = ("reg" :> StoredRegToken(head)) @@ tokens
                  /\ hops' = 0
                  /\ pc' = AfterRegToken(ctx)
                  /\ UNCHANGED <<msgsHost, ctx, result>>
  /\ UNCHANGED <<now, tokenExpiry, msgsEndpoint, tokenFile, cacheFile, fileOps, wcodes, wauth,
                 firstErr, funcOut, pagerVars, hashVars, memberVars>>

\* --------------------------------------------- SkypeConnection.makeEndpoint
\* Lines 132-133: POST {host}/endpoints under Reg auth, keep Location.
MakeEndpointPost(reply, ep) ==
  /\ pc = "endpoint"
  /\ Call("endpointPOST", msgsHost, "Reg", TRUE, EmptyDict, DefaultCodes, reply)
  /\ IF IsExc(lastOut')
       THEN Raise(lastOut') /\ UNCHANGED msgsEndpoint
     ELSE /\ msgsEndpoint' = ep
          /\ pc' = "presence"
          /\ UNCHANGED <<ctx, result>>
  /\ UNCHANGED <<now, tokens, tokenExpiry, msgsHost, tokenFile, cacheFile, fileOps, wcodes, wauth,
                 hops, firstErr, funcOut, pagerVars, hashVars, memberVars>>

\* Lines 134-147: PUT the presence document to the endpoint.
PresencePut(reply) ==
  /\ pc = "presence"
  /\ Call("presencePUT", msgsEndpoint, "Reg", TRUE, EmptyDict, DefaultCodes, reply)
  /\ IF IsExc(lastOut')
       THEN Raise(lastOut')
     ELSE /\ pc' = "sub"
          /\ UNCHANGED <<ctx, result>>
  /\ UNCHANGED <<now, tokens, tokenExpiry, msgsHost, msgsEndpoint, tokenFile, cacheFile, fileOps,
                 wcodes, wauth, hops, firstErr, funcOut, pagerVars, hashVars, memberVars>>

\* ------------------------------------------------ SkypeConnection.subscribe
\* Lines 152-161.  As the last step of __init__ (line 70) it ends the
\* construction; inside the wrapper (lines 39, 45) the operation follows.
Constructed == [type |-> "ok", hasResp |-> FALSE, status |-> 0, msg |-> "constructed"]

Subscribe(reply) ==
  /\ pc = "sub"
  /\ Call("subPOST", msgsHost, "Reg", TRUE, EmptyDict, DefaultCodes, reply)
  /\ IF IsExc(lastOut')
       THEN Raise(lastOut')
     ELSE IF ctx = "ctor"
       THEN /\ pc' = "ready"
            /\ ctx' = "none"
            /\ result' = Constructed
     ELSE IF ctx = "call"
       THEN /\ pc' = "ready"
            /\ ctx' = "none"
            /\ result' = lastOut'
     ELSE /\ pc' = "func"
          /\ UNCHANGED <<ctx, result>>
  /\ UNCHANGED <<now, tokens, tokenExpiry, msgsHost, msgsEndpoint, tokenFile, cacheFile, fileOps,
                 wcodes, wauth, hops, firstErr, funcOut, pagerVars, hashVars, memberVars>>

\* The application calls subscribe itself on a constructed connection; the
\* method is not decorated, so no wrapper stands between caller and request.
\* trace keeps the requests of the calls made in a row.
DirectSubscribe ==
  /\ pc = "ready"
  /\ Len(trace) < MaxCalls
  /\ pc' = "sub"
  /\ ctx' = "call"
  /\ result' = NoOutcome
  /\ UNCHANGED <<now, tokens, tokenExpiry, msgsHost, msgsEndpoint, defHeaders, tokenFile,
                 cacheFile, fileOps, wcodes, wauth, hops, firstErr, trace, funcOut, lastReq,
                 lastOut, sent, pagerVars, hashVars, memberVars>>

\* ------------------------------------- SkypeConnection.resubscribeOn.wrapper
\* Lines 36-37 and 43: the exceptions after which the wrapper resubscribes.
ResubscribesOnCodesOnly(e, codes) ==
  e.type = "api" /\ e.hasResp /\ e.status \in codes

Resubscribes(e, codes) ==
  \/ e.type = "conn"
  \/ e.type = "api" /\ e.hasResp /\ e.status \in codes

\* Lines 34-46: what the wrapper does with the outcome of the n-th invocation
\* of the operation.  The second invocation sits inside the except clause, so
\* nothing catches what it raises.
WrapperNextNoRetry(o, codes, n) ==
  IF ~IsExc(o) THEN "return" ELSE "raise"

WrapperNextLoop(o, codes, n) ==
  IF ~IsExc(o) THEN "return"
  ELSE IF Resubscribes(o, codes) THEN "resubscribe"
  ELSE "raise"

WrapperNextAnyCode(o, codes, n) ==
  IF ~IsExc(o) THEN "return"
  ELSE IF n = 1 /\ (o.type = "conn" \/ (o.type = "api" /\ o.hasResp)) THEN "resubscribe"
  ELSE "raise"

WrapperNext(o, codes, n) ==
  IF ~IsExc(o) THEN "return"
  ELSE IF n = 1 /\ Resubscribes(o, codes) THEN "resubscribe"
  ELSE "raise"

\* A call of an operation decorated with resubscribeOn(*codes).
WrappedCall(codes, auth) ==
  /\ pc = "ready"
  /\ pc' = "func"
  /\ ctx' = "wrap"
  /\ wcodes' = codes
  /\ wauth' = auth
  /\ hops' = 0
  /\ trace' = <<>>
  /\ funcOut' = <<>>
  /\ sent' = 0
  /\ result' = NoOutcome
  /\ firstErr' = NoOutcome
  /\ fileOps' = <<>>
  /\ UNCHANGED <<now, tokens, tokenExpiry, msgsHost, msgsEndpoint, defHeaders, tokenFile,
                 cacheFile, lastReq, lastOut, pagerVars, hashVars, memberVars>>

\* The outcome of the wrapped operation: that of its request, or an exception
\* of its own that carries no response.
FuncOutcome(callOut, bad) ==
  IF IsExc(callOut) THEN callOut
  ELSE IF bad THEN ApiExcNoResp("operation failed")
  ELSE callOut

\* Lines 35, 40 and 46: one invocation of the operation (one request under the
\* operation's auth), and the wrapper's reaction to its outcome.
FuncInvoke(reply, bad) ==
  /\ pc = "func"
  /\ Call("func", msgsHost, wauth, TRUE, EmptyDict, DefaultCodes, reply)
  /\ LET o == FuncOutcome(lastOut', bad)
         next == WrapperNext(o, wcodes, Len(funcOut) + 1)
     IN /\ funcOut' = Append(funcOut, o)
        /\ IF next = "resubscribe"
             THEN /\ pc' = "reg"
                  /\ firstErr' = o
                  /\ UNCHANGED <<ctx, result>>
           ELSE /\ pc' = "ready"
                /\ ctx' = "none"
                /\ result' = o
                /\ UNCHANGED firstErr
  /\ UNCHANGED <<now, tokens, tokenExpiry, msgsHost, msgsEndpoint, tokenFile, cacheFile, fileOps,
                 wcodes, wauth, hops, pagerVars, hashVars, memberVars>>

\* -------------------------------------------------------------------- time
\* The clock moves between top-level calls: one call is short against the
\* lifetime of a session token.
Tick ==
  /\ Idle
  /\ now < MaxTime
  /\ now' = now + 1
  /\ UNCHANGED <<tokens, tokenExpiry, msgsHost, msgsEndpoint, defHeaders, tokenFile,
                 cacheFile, fileOps, pc, ctx, wcodes, wauth, hops, firstErr, result,
                 trace, funcOut, lastReq, lastOut, sent, pagerVars, hashVars, memberVars>>

\* ------------------------------------------------------------------ paging
Chats == {"X", "Y"}
Cursors == {"c1", "c2"}
NoCursor == "none"
RawMsgs == {"m1", "m2"}
RawConvs == {[id |-> "X", thread |-> FALSE], [id |-> "X", thread |-> TRUE],
             [id |-> "Y", thread |-> FALSE]}
SeqsUpTo(S, n) == UNION {[1..k -> S] : k \in 0..n}

\* A resource, as the caller sees it: the messages of one chat, or recent.
MsgsRes(chat) == <<"msgs", chat>>
RecentRes == <<"recent">>
AllRes == {MsgsRes(c) : c \in Chats} \cup {RecentRes}

NoFetch == [res |-> <<"none">>, passed |-> NoCursor, got |-> NoCursor, ok |-> FALSE,
            raw |-> <<>>]
NoPage == [type |-> "none", list |-> <<>>, dict |-> EmptyDict]
RaisedPage == [type |-> "raise", list |-> <<>>, dict |-> EmptyDict]

\* SkypeChat.getMsgs, line 39, and SkypeChats.recent, line 373: the URL.
MsgsUrlNoId(chat) == <<msgsHost, "users/ME/conversations", "messages">>

MsgsUrl(chat) == <<msgsHost, "users/ME/conversations", chat, "messages">>
RecentUrl == <<msgsHost, "users/ME/conversations">>

\* fetch, lines 45-47 and 379-381: the cursor is the reply's
\* _metadata.syncState, None when the reply has none.
FetchCursorDropped(resp) == NoCursor

FetchCursor(resp) == resp.syncState

\* process of getMsgs, lines 48-52: one record per raw message, in order.
ProcessMsgs(resp) ==
  [type |-> "list", list |-> [i \in 1..Len(resp.items) |-> [raw |-> resp.items[i]]],
   dict |-> EmptyDict]

\* process of recent, lines 382-393: a dict keyed by conversation id; a later
\* item with the same id replaces an earlier one.
ChatClass(conv) == IF conv.thread THEN "SkypeGroupChat" ELSE "SkypeSingleChat"
ProcessRecent(resp) ==
  [type |-> "dict", list |-> <<>>,
   dict |-> [id \in {resp.items[i].id : i \in 1..Len(resp.items)} |->
               LET last == CHOOSE i \in 1..Len(resp.items) :
                             /\ resp.items[i].id = id
                             /\ \A j \in (i + 1)..Len(resp.items) : resp.items[j].id # id
               IN ChatClass(resp.items[last])]]
HasThread(resp) == \E i \in 1..Len(resp.items) : resp.items[i].thread

\* The pager (syncState of util): one cursor per resource, kept under the
\* request's URL; a call passes the stored cursor, stores the one fetch
\* returns, then decodes the page.
ResourceKey(url) == url
SyncCursor(key) == IF key \in DOMAIN syncStates THEN syncStates[key] ELSE NoCursor
SyncStore(key, cursor) == (key :> cursor) @@ syncStates

\* One call of a paged method on resource res with the given URL.  The fetch
\* is one GET; when it raises, nothing is stored.  decodeFails: the decode step
\* raised (recent: a thread's GET failed), after the cursor was stored.
PageCall(res, url, reply, resp, decoded, decodeFails) ==
  /\ nFetch < MaxFetches
  /\ nFetch' = nFetch + 1
  /\ IF IsExc(CallOutcome(reply, DefaultCodes))
       THEN /\ lastFetch' = [res |-> res, passed |-> SyncCursor(ResourceKey(url)),
                             got |-> NoCursor, ok |-> FALSE, raw |-> <<>>]
            /\ page' = RaisedPage
            /\ UNCHANGED <<syncStates, returned>>
       ELSE /\ lastFetch' = [res |-> res, passed |-> SyncCursor(ResourceKey(url)),
                             got |-> resp.syncState, ok |-> TRUE, raw |-> resp.items]
            /\ syncStates' = SyncStore(ResourceKey(url), FetchCursor(resp))
            /\ returned' = (res :> resp.syncState) @@ returned
            /\ page' = IF decodeFails THEN RaisedPage ELSE decoded
  /\ UNCHANGED <<sessionVars, hashVars, memberVars>>

\* SkypeChat.getMsgs, lines 27-53.
GetMsgs(chat, reply, resp) ==
  PageCall(MsgsRes(chat), MsgsUrl(chat), reply, resp, ProcessMsgs(resp), FALSE)

\* SkypeChats.recent, lines 363-394.
Recent(reply, resp, infoReply) ==
  PageCall(RecentRes, RecentUrl, reply, resp, ProcessRecent(resp),
           HasThread(resp) /\ IsExc(CallOutcome(infoReply, DefaultCodes)))

\* The replies that differ for a GET with the default codes: a connection
\* failure, an accepted status, a refused one.
GetReplies == {r \in Replies : ~r.conn \/ r.status \in {201, 401}}

\* ------------------------------------------------------- SkypeGroupChat
\* A raw member carries its id (as noPrefix gives it) and its role.
Users == {"a", "b"}
Roles == {"Admin", "User"}
RawMembers == SeqsUpTo([id : Users, role : Roles], MaxMembers)

InList(x, list) == \E i \in 1..Len(list) : list[i] = x

\* list.remove(x): the first occurrence goes.
ListRemove(list, x) ==
  LET first == CHOOSE i \in 1..Len(list) :
                 list[i] = x /\ \A j \in 1..(i - 1) : list[j] # x
  IN [i \in 1..(Len(list) - 1) |-> IF i < first THEN list[i] ELSE list[i + 1]]

\* rawToFields, lines 257-262: every member's id, in order, and the ids of
\* those whose role is Admin.
RawUserIds(members) == [i \in 1..Len(members) |-> members[i].id]
RawAdminIds(members) ==
  RawUserIds(SelectSeq(members, LAMBDA obj : obj.role = "Admin"))

NoMemberCall == [op |-> "none", id |-> "-", admin |-> FALSE, out |-> NoOutcome]

\* addMember, lines 324-331: adminIds after the request went through.
AdminsAfterAdd(id, admin) ==
  IF admin /\ ~InList(id, adminIds) THEN Append(adminIds, id)
  ELSE IF ~admin /\ InList(id, adminIds) THEN ListRemove(adminIds, id)
  ELSE adminIds

\* addMember, lines 317-331: the PUT, then the two lists are brought up to
\* date; a request that raises leaves the method before any of that.
AddMember(id, admin, reply) ==
  /\ memberCall' = [op |-> "add", id |-> id, admin |-> admin,
                    out |-> CallOutcome(reply, DefaultCodes)]
  /\ IF IsExc(CallOutcome(reply, DefaultCodes))
       THEN UNCHANGED <<userIds, adminIds>>
     ELSE /\ userIds' = IF InList(id, userIds) THEN userIds ELSE Append(userIds, id)
          /\ adminIds' = AdminsAfterAdd(id, admin)
  /\ UNCHANGED <<sessionVars, pagerVars, hashVars>>

\* removeMember, lines 333-343: the DELETE, then the id leaves userIds.
RemoveMember(id, reply) ==
  /\ memberCall' = [op |-> "remove", id |-> id, admin |-> FALSE,
                    out |-> CallOutcome(reply, DefaultCodes)]
  /\ IF IsExc(CallOutcome(reply, DefaultCodes))
       THEN UNCHANGED <<userIds, adminIds>>
     ELSE /\ userIds' = IF InList(id, userIds) THEN ListRemove(userIds, id) ELSE userIds
          /\ UNCHANGED adminIds
  /\ UNCHANGED <<sessionVars, pagerVars, hashVars>>

\* ----------------------------------------------------------- getMac256Hash
\* Text is a sequence of one-character strings.  A number that can pass
\* 2^31 - 1 is kept as the sequence of its digits (bytes, low byte first, or
\* bits, high bit first); smaller ones are integers.
Digits == {"1", "2"}
AppIds == {<<>>, <<"m", "s", "m", "s", "g", "s">>, <<"m", "s", "m", "s", "g", "s", "@">>}

\* hashlib.sha256(...).hexdigest().upper(), line 241: 64 upper-case hex digits.
\* The digests of "1", "11" and "1478000000" followed by the key of line 122.
UpperHex == <<"0", "1", "2", "3", "4", "5", "6", "7", "8", "9",
              "A", "B", "C", "D", "E", "F">>
Digests ==
  {<<"B", "5", "7", "0", "4", "F", "B", "C", "9", "1", "D", "2", "7", "F", "6", "8",
    "3", "9", "7", "C", "8", "2", "7", "5", "0", "C", "5", "0", "A", "7", "B", "6",
    "0", "2", "8", "A", "4", "5", "E", "2", "4", "3", "B", "B", "2", "E", "A", "D",
    "A", "C", "F", "3", "8", "2", "1", "A", "0", "3", "8", "C", "4", "4", "3", "4">>,
   <<"0", "3", "E", "9", "B", "E", "5", "D", "3", "8", "8", "6", "5", "B", "1", "0",
    "F", "F", "2", "2", "1", "4", "A", "C", "E", "1", "1", "0", "B", "D", "A", "F",
    "F", "2", "E", "E", "1", "8", "0", "4", "1", "5", "0", "2", "5", "0", "F", "4",
    "5", "0", "2", "1", "1", "0", "9", "0", "3", "8", "E", "3", "7", "0", "A", "D">>,
   <<"D", "B", "D", "F", "9", "4", "2", "E", "F", "3", "5", "E", "D", "F", "4", "0",
    "6", "C", "F", "B", "C", "2", "2", "E", "3", "9", "1", "1", "E", "4", "D", "1",
    "0", "1", "0", "7", "3", "0", "8", "B", "A", "5", "B", "5", "E", "1", "9", "4",
    "0", "A", "F", "4", "0", "E", "5", "8", "C", "F", "3", "4", "D", "C", "A", "2">>}

\* ord(), line 239.
Ord(c) ==
  CASE c = "0" -> 48 [] c = "1" -> 49 [] c = "2" -> 50 [] c = "@" -> 64
    [] c = "g" -> 103 [] c = "m" -> 109 [] c = "s" -> 115

\* int(h, 16) of one hex digit, line 246.
HexVal(c) == (CHOOSE i \in 1..16 : UpperHex[i] = c) - 1

\* Line 175.
HexCharsUpper == UpperHex

HexChars == <<"0", "1", "2", "3", "4", "5", "6", "7", "8", "9",
              "a", "b", "c", "d", "e", "f">>

\* "{0:b}".format(n), lines 182-183: the bits of n, high bit first, no
\* leading zero; of an integer, and of a number given by its four bytes.
RECURSIVE Bin(_)
Bin(n) == IF n < 2 THEN <<n>> ELSE Append(Bin(n \div 2), n % 2)

RECURSIVE StripZeros(_)
StripZeros(bits) ==
  IF Len(bits) > 1 /\ bits[1] = 0 THEN StripZeros(Tail(bits)) ELSE bits

Byte8(b) == [k \in 1..8 |-> (b \div (2 ^ (8 - k))) % 2]
BinWord(w) == StripZeros(Byte8(w[4]) \o Byte8(w[3]) \o Byte8(w[2]) \o Byte8(w[1]))

\* (n >> sh) & 15, lines 178-179, of a number given by its bits.
BitAt(bits, j) == IF j < Len(bits) THEN bits[Len(bits) - j] ELSE 0
Nibble(bits, sh) ==
  BitAt(bits, sh) + 2 * BitAt(bits, sh + 1) + 4 * BitAt(bits, sh + 2)
    + 8 * BitAt(bits, sh + 3)

\* Lines 174-180: byte i of n gives two digits, high nibble first.
int32ToHexString(n) ==
  [k \in 1..8 |->
     LET i == (k - 1) \div 2
     IN HexChars[Nibble(n, i * 8 + (IF k % 2 = 1 THEN 4 ELSE 0)) + 1]]

\* Lines 181-197: the shorter bit string is padded on the left with zeros and
\* the two are compared place by place.  a is given by its bytes, b is an
\* integer; the result, int(sC, 2), is given by its bits.
int64Xor(a, b) ==
  LET sA0 == BinWord(a)
      sB0 == Bin(b)
      diff == IF Len(sA0) < Len(sB0) THEN Len(sB0) - Len(sA0) ELSE Len(sA0) - Len(sB0)
      sD == [i \in 1..diff |-> 0]
      sA == IF Len(sA0) < Len(sB0) THEN sD \o sA0 ELSE sA0
      sB == IF Len(sB0) < Len(sA0) THEN sD \o sB0 ELSE sB0
  IN [i \in 1..Len(sA) |-> IF sA[i] = sB[i] THEN 0 ELSE 1]

\* Lines 201 and 206.
MODULUS == 2147483647
CS64_e == 242854337

\* (x + y) % MODULUS and (x * y) % MODULUS for x, y in 0..MODULUS-1, computed
\* without passing 2^31 - 1.  The product is taken on the 11-bit digits of x
\* and y; 2^31 is 1 modulo MODULUS, so a multiplication by 2^k is a rotation
\* of 31 bits.
AddMod(x, y) == IF x >= MODULUS - y THEN x - (MODULUS - y) ELSE x + y

Digit11(n, i) == (n \div (2048 ^ i)) % 2048
RotL(c, k) == ((c % (2 ^ (31 - k))) * (2 ^ k) + c \div (2 ^ (31 - k))) % MODULUS

MulMod(x, y) ==
  AddMod(
    AddMod(
      AddMod(Digit11(x, 0) * Digit11(y, 0),
             RotL(Digit11(x, 0) * Digit11(y, 1) + Digit11(x, 1) * Digit11(y, 0), 11)),
      AddMod(RotL(Digit11(x, 0) * Digit11(y, 2) + Digit11(x, 1) * Digit11(y, 1)
                    + Digit11(x, 2) * Digit11(y, 0), 22),
             RotL(Digit11(x, 1) * Digit11(y, 2) + Digit11(x, 2) * Digit11(y, 1), 2))),
    RotL(Digit11(x, 2) * Digit11(y, 2), 13))

\* pInHash[k] & MODULUS, lines 202-205: the low 31 bits of a four-byte number.
AndModulus(w) == w[1] + 256 * w[2] + 65536 * w[3] + 16777216 * (w[4] % 128)

\* Lines 211-226: qwMAC and qwSum after the first n pairs of pdwData.  The
\* source reduces qwMAC at lines 218 and 225 and qwSum once, at line 230;
\* here both are kept reduced after every addition, which gives the same
\* residues.
RECURSIVE CS64Pairs(_, _, _)
CS64Pairs(pdwData, k, n) ==
  IF n = 0 THEN <<0, 0>>
  ELSE LET prev == CS64Pairs(pdwData, k, n - 1)
           qwDatum == MulMod(pdwData[2 * n - 1] % MODULUS, CS64_e)
           mac1 == AddMod(MulMod(AddMod(prev[1], qwDatum), k.a), k.b)
           sum1 == AddMod(prev[2], mac1)
           mac2 == AddMod(MulMod(AddMod(mac1, pdwData[2 * n] % MODULUS), k.c), k.d)
           sum2 == AddMod(sum1, mac2)
       IN <<mac2, sum2>>

\* Lines 198-231.  None for fewer than two words or an odd number of them.
None == <<"None">>
cS64(pdwData, pInHash) ==
  IF Len(pdwData) < 2 \/ Len(pdwData) % 2 = 1 THEN None
  ELSE LET CS64 == [a |-> AndModulus(pInHash[1]) % MODULUS,
                    b |-> AndModulus(pInHash[2]) % MODULUS,
                    c |-> AndModulus(pInHash[3]) % MODULUS,
                    d |-> AndModulus(pInHash[4]) % MODULUS]
           loop == CS64Pairs(pdwData, CS64, Len(pdwData) \div 2)
       IN <<AddMod(loop[1], CS64.b), AddMod(loop[2], CS64.d)>>

\* Lines 232-233: the zeros appended to challenge + appId.
PadCount(n) == 8 - (n % 8)
Padded(text) == text \o [i \in 1..PadCount(Len(text)) |-> "0"]

\* Lines 234-239: cchClearText words, each the sum of ord(clearText[pos]) *
\* 256 ** pos over pos in 0..3.  Line 239 subscripts clearText with pos
\* alone, whatever the word index i is.
CharAt(text, i, pos) == text[pos + 1]
WordAt(text, i) ==
  Ord(CharAt(text, i, 0)) + 256 * Ord(CharAt(text, i, 1))
    + 65536 * Ord(CharAt(text, i, 2)) + 16777216 * Ord(CharAt(text, i, 3))
Words(text) == [i \in 1..(Len(text) \div 4) |-> WordAt(text, i - 1)]

\* Lines 242-246: the four seed words, each the sum of
\* int(hash[dpos:dpos + 2], 16) * 256 ** pos with dpos = pos * 2, whatever the
\* word index i is; a word is given by its four bytes, low byte first.
SeedByte(digest, i, pos) ==
  LET dpos == pos * 2
  IN 16 * HexVal(digest[dpos + 1]) + HexVal(digest[dpos + 2])
Seeds(digest) == [i \in 1..4 |-> [pos \in 1..4 |-> SeedByte(digest, i - 1, pos - 1)]]

\* Lines 248-249.
MacParts(m) == <<m[1], m[2], m[1], m[2]>>
Joined(seeds, m) ==
  int32ToHexString(int64Xor(seeds[1], MacParts(m)[1]))
    \o int32ToHexString(int64Xor(seeds[2], MacParts(m)[2]))
    \o int32ToHexString(int64Xor(seeds[3], MacParts(m)[3]))
    \o int32ToHexString(int64Xor(seeds[4], MacParts(m)[4]))

\* getMac256Hash, one action per stage of lines 232-249.
HashPad ==
  /\ hpc = "called"
  /\ clearText' = Padded(challenge \o appId)
  /\ hpc' = "padded"
  /\ UNCHANGED <<challenge, appId, hash, pClearText, sha256Hash, macHash, mac256,
                 sessionVars, pagerVars, memberVars>>

HashWords ==
  /\ hpc = "padded"
  /\ pClearText' = Words(clearText)
  /\ hpc' = "words"
  /\ UNCHANGED <<challenge, appId, hash, clearText, sha256Hash, macHash, mac256,
                 sessionVars, pagerVars, memberVars>>

HashSeeds ==
  /\ hpc = "words"
  /\ sha256Hash' = Seeds(hash)
  /\ hpc' = "seeded"
  /\ UNCHANGED <<challenge, appId, hash, clearText, pClearText, macHash, mac256,
                 sessionVars, pagerVars, memberVars>>

\* Line 247; line 248 subscripts the result, which raises TypeError on None.
HashMix ==
  /\ hpc = "seeded"
  /\ macHash' = cS64(pClearText, sha256Hash)
  /\ hpc' = IF macHash' = None THEN "raised" ELSE "mixed"
  /\ UNCHANGED <<challenge, appId, hash, clearText, pClearText, sha256Hash, mac256,
                 sessionVars, pagerVars, memberVars>>

HashJoin ==
  /\ hpc = "mixed"
  /\ mac256' = Joined(sha256Hash, macHash)
  /\ hpc' = "returned"
  /\ UNCHANGED <<challenge, appId, hash, clearText, pClearText, sha256Hash, macHash,
                 sessionVars, pagerVars, memberVars>>

\* ----------------------------------------------------------- specification
InitPager ==
  /\ syncStates = EmptyDict
  /\ lastFetch = NoFetch
  /\ returned = EmptyDict
  /\ page = NoPage
  /\ nFetch = 0

InitSession ==
  /\ now = 0
  /\ tokens = EmptyDict
  /\ tokenExpiry = EmptyDict
  /\ msgsHost = "unset"
  /\ msgsEndpoint = "unset"
  /\ defHeaders = EmptyDict
  /\ tokenFile = FALSE
  /\ cacheFile \in InitialFiles
  /\ fileOps = <<>>
  /\ pc = "start"
  /\ ctx = "none"
  /\ wcodes = {}
  /\ wauth = "None"
  /\ hops = 0
  /\ firstErr = NoOutcome
  /\ result = NoOutcome
  /\ trace = <<>>
  /\ funcOut = <<>>
  /\ lastReq = NoReq
  /\ lastOut = NoOutcome
  /\ sent = 0

\* No getMac256Hash call is running.
InitNoHash ==
  /\ challenge = <<>>
  /\ appId = <<>>
  /\ hash = <<>>
  /\ clearText = <<>>
  /\ pClearText = <<>>
  /\ sha256Hash = <<>>
  /\ macHash = <<>>
  /\ mac256 = <<>>
  /\ hpc = "none"

\* No group chat object is in use.
InitNoChat ==
  /\ userIds = <<>>
  /\ adminIds = <<>>
  /\ memberCall = NoMemberCall

Init == InitSession /\ InitPager /\ InitNoHash /\ InitNoChat

Next ==
  \/ \E useFile \in BOOLEAN : Construct(useFile)
  \/ \E reply \in Replies, captcha \in BOOLEAN : LoginGet(reply, captcha)
  \/ \E reply \in Replies, body \in {"error", "notoken", "noexpiry", "token"},
        tok \in SkypeTokens, ttl \in 1..MaxTTL : LoginPost(reply, body, tok, ttl)
  \/ \E reply \in Replies, location \in Hosts, head \in RegTokens :
        GetRegToken(reply, location, head)
  \/ \E reply \in Replies, ep \in Endpoints : MakeEndpointPost(reply, ep)
  \/ \E reply \in Replies : PresencePut(reply)
  \/ \E reply \in Replies : Subscribe(reply)
  \/ \E codes \in CodeSets, auth \in AuthKinds : WrappedCall(codes, auth)
  \/ \E reply \in Replies, bad \in BOOLEAN : FuncInvoke(reply, bad)
  \/ Tick

Spec == Init /\ [][Next]_vars

\* The pager, on a connection that has been constructed.
InitReady ==
  /\ now = 0
  /\ tokens = ("skype" :> "s1") @@ ("reg" :> "r1")
  /\ tokenExpiry = ("skype" :> MaxTTL)
  /\ msgsHost = API_MSGSHOST
  /\ msgsEndpoint = "e1"
  /\ defHeaders = ("RegistrationToken" :> "r1")
  /\ tokenFile = FALSE
  /\ cacheFile = NoFile
  /\ fileOps = <<>>
  /\ pc = "ready"
  /\ ctx = "none"
  /\ wcodes = {}
  /\ wauth = "None"
  /\ hops = 0
  /\ firstErr = NoOutcome
  /\ result = Constructed
  /\ trace = <<>>
  /\ funcOut = <<>>
  /\ lastReq = NoReq
  /\ lastOut = NoOutcome
  /\ sent = 0

MsgPages == [items : SeqsUpTo(RawMsgs, MaxPage), syncState : Cursors \cup {NoCursor}]
ConvPages == [items : SeqsUpTo(RawConvs, MaxPage), syncState : Cursors \cup {NoCursor}]

NextPager ==
  \/ \E chat \in Chats, reply \in GetReplies, resp \in MsgPages :
        GetMsgs(chat, reply, resp)
  \/ \E reply \in GetReplies, resp \in ConvPages,
        infoReply \in {r \in GetReplies : r.conn} :
        Recent(reply, resp, infoReply)

InitPaging == InitReady /\ InitPager /\ InitNoHash /\ InitNoChat

SpecPager == InitPaging /\ [][NextPager]_vars

\* A constructed connection: the constructor's subscribe was the last request
\* and wrote the registration token into the shared default headers; wrapped
\* calls under Skype auth may have added the session token to them.
InitSubscribed ==
  /\ InitPager /\ InitNoHash /\ InitNoChat
  /\ now = 0
  /\ \E r \in RegTokens :
       /\ tokens = ("skype" :> "s1") @@ ("reg" :> r)
       /\ defHeaders \in {("RegistrationToken" :> r),
                          ("RegistrationToken" :> r) @@ ("X-SkypeToken" :> "s1")}
  /\ tokenExpiry = ("skype" :> MaxTTL)
  /\ msgsHost \in Hosts
  /\ msgsEndpoint \in Endpoints
  /\ tokenFile = FALSE
  /\ cacheFile = NoFile
  /\ fileOps = <<>>
  /\ pc = "ready"
  /\ ctx = "none"
  /\ wcodes = {}
  /\ wauth = "None"
  /\ hops = 0
  /\ firstErr = NoOutcome
  /\ result = Constructed
  /\ trace = <<>>
  /\ funcOut = <<>>
  /\ lastReq = NoReq
  /\ lastOut = NoOutcome
  /\ sent = 0

NextSubscribe ==
  \/ DirectSubscribe
  \/ \E reply \in Replies : Subscribe(reply)
  \/ Tick

SpecSubscribe == InitSubscribed /\ [][NextSubscribe]_vars

\* A group chat object built by rawToFields from up to MaxMembers members, on
\* a constructed connection.
InitMembers ==
  /\ InitReady /\ InitPager /\ InitNoHash
  /\ \E members \in RawMembers :
       /\ userIds = RawUserIds(members)
       /\ adminIds = RawAdminIds(members)
  /\ memberCall = NoMemberCall

NextMembers ==
  \/ \E id \in Users, admin \in BOOLEAN, reply \in GetReplies : AddMember(id, admin, reply)
  \/ \E id \in Users, reply \in GetReplies : RemoveMember(id, reply)

SpecMembers == InitMembers /\ [][NextMembers]_vars

\* getMac256Hash called on a challenge of up to MaxChallenge digits.
InitHash ==
  /\ InitReady /\ InitPager /\ InitNoChat
  /\ challenge \in SeqsUpTo(Digits, MaxChallenge)
  /\ appId \in AppIds
  /\ hash \in Digests
  /\ clearText = <<>>
  /\ pClearText = <<>>
  /\ sha256Hash = <<>>
  /\ macHash = <<>>
  /\ mac256 = <<>>
  /\ hpc = "called"

NextHash == HashPad \/ HashWords \/ HashSeeds \/ HashMix \/ HashJoin

SpecHash == InitHash /\ [][NextHash]_vars

\* ================================================================ claims
Count(seq, x) == Cardinality({i \in 1..Len(seq) : seq[i] = x})
Last(seq) == seq[Len(seq)]
RegKinds == {"regPOST", "regRePOST"}
SessionStepKinds == {"regPOST", "regRePOST", "endpointPOST", "presencePUT", "subPOST"}

\* A step in which a request of kind k goes out.
IssuedAmong(ks) == Len(trace') = Len(trace) + 1 /\ Last(trace') \in ks

\* The last top-level call was a wrapped call and it is over.
WrapDone == pc = "ready" /\ Len(funcOut) > 0
FirstFailedInCodes ==
  /\ Len(funcOut) > 0
  /\ funcOut[1].type = "api" /\ funcOut[1].hasResp /\ funcOut[1].status \in wcodes
FirstFailedOutsideCodes ==
  /\ Len(funcOut) > 0
  /\ funcOut[1].type = "api"
  /\ ~funcOut[1].hasResp \/ funcOut[1].status \notin wcodes

\* The requests of one complete resubscribe cycle between two invocations.
IsCycleTrace(tr) ==
  /\ Len(tr) >= 4
  /\ tr[1] = "func" /\ tr[2] = "regPOST"
  /\ \A i \in 3..(Len(tr) - 2) : tr[i] = "regRePOST"
  /\ tr[Len(tr) - 1] = "subPOST" /\ tr[Len(tr)] = "func"

\* The cycle itself failed: its last request is the last request of the call.
CycleFailed == Len(trace) > 1 /\ Last(trace) \in {"regPOST", "regRePOST", "subPOST"}

\* C1 as stated: whenever the first invocation of a wrapped operation fails with
\* a status in codes, one resubscribe cycle (getRegToken, then subscribe) runs,
\* the operation is invoked a second time, and a successful second invocation's
\* result is returned.
C1_AsStated ==
  (WrapDone /\ FirstFailedInCodes) =>
    /\ IsCycleTrace(trace)
    /\ Len(funcOut) = 2
    /\ ~IsExc(funcOut[2]) => result = funcOut[2]

\* C1 amended: after a first failure with a status in codes, getRegToken is
\* invoked exactly once and first; if it and the subscribe that follows it both
\* succeed, the operation is re-invoked exactly once and a successful
\* re-invocation's result is returned; if getRegToken or subscribe fails, the
\* operation is not re-invoked and that error reaches the caller.
C1_ResubscribeOnce ==
  (WrapDone /\ FirstFailedInCodes) =>
    /\ Len(trace) >= 2 /\ trace[1] = "func" /\ trace[2] = "regPOST"
    /\ Count(trace, "regPOST") = 1
    /\ Count(trace, "subPOST") <= 1
    /\ IF CycleFailed
         THEN Len(funcOut) = 1 /\ IsExc(result) /\ result = lastOut
         ELSE /\ IsCycleTrace(trace)
              /\ Len(funcOut) = 2
              /\ ~IsExc(funcOut[2]) => result = funcOut[2]

C1_Witness ==
  /\ WrapDone /\ FirstFailedInCodes
  /\ IsCycleTrace(trace)
  /\ Len(funcOut) = 2 /\ ~IsExc(funcOut[2]) /\ result = funcOut[2]

\* C2: one wrapped call invokes the operation at most twice and runs at most
\* one resubscribe cycle; a failure of the second invocation is what the caller
\* gets, and nothing is sent after it.
C2_AtMostTwice ==
  /\ Len(funcOut) <= 2
  /\ Count(trace, "func") <= 2
  /\ Count(trace, "regPOST") <= 1
  /\ Count(trace, "subPOST") <= 1
  /\ (Len(funcOut) = 2 /\ IsExc(funcOut[2])) =>
       /\ pc = "ready"
       /\ result = funcOut[2]
       /\ Last(trace) = "func"

C2_Witness ==
  /\ WrapDone /\ Len(funcOut) = 2 /\ IsExc(funcOut[2])
  /\ result = funcOut[2] /\ Resubscribes(funcOut[2], wcodes)

\* C3: a first failure that is a SkypeApiException with a status outside codes,
\* or without a response, leaves the wrapper at once: that exception is the
\* caller's result, the operation ran once, no registration or subscription
\* request was sent, and tokens and host are what they were.
C3_NonTriggering ==
  [][ /\ (pc = "ready" /\ pc' = "func") =>
           (tokens' = tokens /\ tokenExpiry' = tokenExpiry /\ msgsHost' = msgsHost)
      /\ (pc = "func" /\ Len(funcOut) = 0 /\ FirstFailedOutsideCodes') =>
           /\ pc' = "ready"
           /\ result' = funcOut'[1]
           /\ funcOut' = <<result'>>
           /\ trace = <<>> /\ trace' = <<"func">>
           /\ tokens' = tokens /\ tokenExpiry' = tokenExpiry /\ msgsHost' = msgsHost
    ]_vars

C3_Witness ==
  /\ WrapDone /\ FirstFailedOutsideCodes
  /\ funcOut[1].hasResp /\ wcodes # {}
  /\ result = funcOut[1] /\ trace = <<"func">>

\* C4 as stated: a registration-token request, an endpoint registration or a
\* subscription goes out only while a session token is stored whose recorded
\* expiry is later than the current time.
C4_AsStated ==
  [][ IssuedAmong(SessionStepKinds) =>
        ("skype" \in DOMAIN tokens /\ "skype" \in DOMAIN tokenExpiry
         /\ now < tokenExpiry["skype"]) ]_vars

\* C5: the requests of a construction follow the order login GET, login POST
\* (both left out when the cache was adopted), registration POSTs, endpoint
\* POST, presence PUT, subscription POST; each goes out only after the one
\* before it succeeded; a failure ends the construction; a finished
\* construction has sent the subscription exactly once, as its last request.
Follows(tr, i) ==
  IF tr[i] = "loginGET" THEN i = 1
  ELSE IF tr[i] = "loginPOST" THEN i > 1 /\ tr[i - 1] = "loginGET"
  ELSE IF tr[i] = "regPOST" THEN i = 1 \/ tr[i - 1] = "loginPOST"
  ELSE IF tr[i] = "regRePOST" THEN i > 1 /\ tr[i - 1] \in RegKinds
  ELSE IF tr[i] = "endpointPOST" THEN i > 1 /\ tr[i - 1] \in RegKinds
  ELSE IF tr[i] = "presencePUT" THEN i > 1 /\ tr[i - 1] = "endpointPOST"
  ELSE IF tr[i] = "subPOST" THEN i > 1 /\ tr[i - 1] = "presencePUT"
  ELSE FALSE

InCtor == ctx = "ctor" \/ pc = "dead" \/ (pc = "ready" /\ result = Constructed)

C5_HandshakeOrder ==
  /\ InCtor => \A i \in 1..Len(trace) : Follows(trace, i)
  /\ (ctx = "ctor" /\ Len(trace) > 0) => ~IsExc(lastOut)
  /\ (pc = "dead") => IsExc(result)
  /\ (pc = "ready" /\ result = Constructed) =>
        /\ Count(trace, "subPOST") = 1 /\ Last(trace) = "subPOST"
        /\ Count(trace, "endpointPOST") = 1 /\ Count(trace, "presencePUT") = 1
        /\ Count(trace, "regPOST") = 1
        /\ {"skype", "reg"} \subseteq DOMAIN tokens

C5_Witness ==
  /\ pc = "ready" /\ result = Constructed
  /\ trace = <<"loginGET", "loginPOST", "regPOST", "endpointPOST", "presencePUT", "subPOST">>

\* C6: every registration POST goes to the current host.  When the reply names
\* another host, msgsHost becomes that host, no token is stored and the POST is
\* issued again; when it names the current host, the reply's token is stored
\* and getRegToken is over, having sent one POST more than it saw redirects.
RegPosts(tr) ==
  Cardinality({i \in 1..Len(tr) : tr[i] \in RegKinds
                 /\ \A j \in (i + 1)..Len(tr) : tr[j] # "regPOST"})

C6_Redirect ==
  [][ (IssuedAmong(RegKinds) /\ ~IsExc(lastOut')) =>
        /\ lastReq'.host = msgsHost
        /\ IF lastReq'.reply.location # msgsHost
             THEN /\ msgsHost' = lastReq'.reply.location
                  /\ tokens' = tokens
                  /\ pc' = "reg"
             ELSE /\ msgsHost' = msgsHost
                  /\ tokens'["reg"] = lastReq'.reply.head
                  /\ pc' \in {"endpoint", "sub"}
                  /\ RegPosts(trace') = hops + 1
    ]_vars

C6_Witness ==
  /\ pc \in {"endpoint", "sub"}
  /\ Last(trace) = "regRePOST"
  /\ RegPosts(trace) = 2
  /\ lastReq.host = msgsHost /\ lastReq.reply.location = msgsHost
  /\ tokens["reg"] = lastReq.reply.head

\* C9: every __call__ sends exactly one request; a reply whose status is in the
\* accepted set is returned, any other status is raised as a SkypeApiException
\* that carries the reply.
C9_OneRequest ==
  /\ sent = Len(trace)
  /\ (lastReq.kind # "none" /\ lastReq.reply.conn) =>
       /\ lastOut.status = lastReq.reply.status /\ lastOut.hasResp
       /\ lastOut.type = IF lastReq.reply.status \in lastReq.codes THEN "ok" ELSE "api"

C9_Witness ==
  /\ sent = 2 /\ Len(trace) = 2
  /\ lastReq.reply.conn /\ lastReq.reply.status \notin lastReq.codes
  /\ lastOut = ApiExc(lastReq.reply.status)

\* C10 as stated: the headers of a request are those the call was given plus
\* the one token header its auth asks for, holding the current token; a call
\* with auth None and no headers argument sends no token header.
C10_AsStated ==
  [][ (Len(trace') = Len(trace) + 1) =>
        lastReq'.hdrs = CallHeaders(lastReq'.auth, lastReq'.arg) ]_vars

\* The cursor the next call on resource r will pass, and the cursor the last
\* successful fetch on r got from the server.
ResUrl(r) == IF r = RecentRes THEN RecentUrl ELSE MsgsUrl(r[2])
NextCursor(r) == SyncCursor(ResourceKey(ResUrl(r)))
LastReturned(r) == IF r \in DOMAIN returned THEN returned[r] ELSE NoCursor

\* C7: a call on a resource passes no cursor when no earlier call on that
\* resource returned one, and otherwise passes exactly the syncState that the
\* latest call on that resource got from the server.
C7_CursorThreaded ==
  [][ (nFetch' = nFetch + 1) =>
        lastFetch'.passed = LastReturned(lastFetch'.res) ]_vars

C7_Witness ==
  /\ lastFetch.ok /\ lastFetch.passed = "c1" /\ lastFetch.got = "c2"
  /\ lastFetch.res = MsgsRes("X")
  /\ returned[MsgsRes("X")] = "c2"

\* C8: a call on one resource leaves the cursor of every other resource as it
\* was, so that in every state the cursor the next call on a resource will pass
\* is the one the last call on that same resource returned.
C8_Independent ==
  [][ (nFetch' = nFetch + 1) =>
        /\ \A r \in AllRes \ {lastFetch'.res} : NextCursor(r)' = NextCursor(r)
        /\ \A r \in AllRes : NextCursor(r)' = LastReturned(r)' ]_vars

C8_Witness ==
  /\ lastFetch.res = RecentRes /\ lastFetch.ok
  /\ NextCursor(MsgsRes("X")) = "c1"
  /\ NextCursor(MsgsRes("Y")) = "c2"
  /\ NextCursor(RecentRes) = NoCursor
  /\ returned[MsgsRes("X")] = "c1"

\* ------------------------------------------------------ cache, login, cycle
LoginKinds == {"loginGET", "loginPOST"}

\* The step that starts a construction.
CtorStarts == ctx # "ctor" /\ ctx' = "ctor"

\* C11: a construction whose cache file holds a token with an expiry later than
\* the current time adopts the cached token, expiry and host, sends no login
\* request and begins with the registration POST to the cached host; a
\* construction without such a cache holds no token, begins with the login GET,
\* and a login that succeeds sets the default messaging host.
C11_CacheShortcut ==
  [][ /\ CtorStarts =>
           IF tokenFile' /\ cacheFile.present /\ cacheFile.expiry > now
             THEN /\ pc' = "reg"
                  /\ tokens' = ("skype" :> cacheFile.token)
                  /\ tokenExpiry' = ("skype" :> cacheFile.expiry)
                  /\ msgsHost' = cacheFile.host
             ELSE /\ pc' = "loginGet"
                  /\ tokens' = EmptyDict /\ tokenExpiry' = EmptyDict
      /\ (ctx = "ctor" /\ trace = <<>> /\ Len(trace') = 1) =>
           IF pc = "reg"
             THEN trace'[1] = "regPOST" /\ lastReq'.host = msgsHost
             ELSE trace'[1] = "loginGET"
      /\ (InCtor' /\ Len(trace') > 0 /\ trace'[1] = "regPOST") =>
           \A i \in 1..Len(trace') : trace'[i] \notin LoginKinds
      /\ (pc = "loginPost" /\ pc' = "reg") => msgsHost' = API_MSGSHOST ]_vars

C11_Witness ==
  /\ pc = "ready" /\ result = Constructed
  /\ tokenFile /\ fileOps = <<"read">>
  /\ trace[1] = "regPOST"
  /\ tokens["skype"] = "s0" /\ tokenExpiry["skype"] = 1 /\ msgsHost = "h1"

\* C12: when the login page demands a captcha, or the page that answers the
\* credentials holds an error block, the construction ends there with an
\* exception: no session token is stored, the cache file is not written, no
\* registration, endpoint or subscription request has gone out or goes out,
\* and after a captcha page the credentials are not posted.
C12_LoginFailure ==
  [][ /\ ( /\ IssuedAmong(LoginKinds)
           /\ lastOut'.type = "ok"
           /\ lastReq'.reply.body \in {"captcha", "error"} ) =>
             /\ pc' = "dead" /\ ctx' = "none"
             /\ result'.type = "api"
             /\ "skype" \notin DOMAIN tokens'
             /\ cacheFile' = cacheFile /\ Count(fileOps', "write") = 0
             /\ \A i \in 1..Len(trace') : trace'[i] \in LoginKinds
             /\ lastReq'.reply.body = "captcha" => Count(trace', "loginPOST") = 0
      /\ pc = "dead" => (trace' = trace \/ ctx' = "ctor") ]_vars

C12_Witness ==
  /\ pc = "dead" /\ result = ApiExcNoResp("Captcha required")
  /\ lastReq.reply.body = "captcha"
  /\ trace = <<"loginGET">>
  /\ tokens = EmptyDict
  /\ tokenFile /\ cacheFile.present /\ cacheFile.token = "s0"

\* The session token is held and not expired.
ValidSkype ==
  /\ "skype" \in DOMAIN tokens /\ "skype" \in DOMAIN tokenExpiry
  /\ now < tokenExpiry["skype"]

\* C13 as stated: getRegToken entered while no valid session token is held
\* ends with an error, sends no registration request and leaves the tokens and
\* the host as they were.
C13_AsStated ==
  [][ (pc = "reg" /\ hops = 0 /\ ~ValidSkype) =>
        /\ Len(trace') = Len(trace)
        /\ tokens' = tokens /\ msgsHost' = msgsHost
        /\ pc' # pc => (pc' \in {"dead", "ready"} /\ result'.type \in {"api", "key"}) ]_vars

FirstFailedConn == Len(funcOut) > 0 /\ funcOut[1].type = "conn"

\* C14 as stated: whenever the first invocation of a wrapped operation fails
\* with a connection error, one resubscribe cycle runs and the operation is
\* invoked a second time, whatever codes are.
C14_AsStated ==
  (WrapDone /\ FirstFailedConn) =>
    /\ IsCycleTrace(trace)
    /\ Len(funcOut) = 2

\* C14 amended: after a first failure with a connection error, whatever codes
\* are, getRegToken is invoked exactly once and first; if it and the subscribe
\* that follows both succeed, the operation is re-invoked exactly once and the
\* caller gets that invocation's outcome; if getRegToken or subscribe fails,
\* the operation is not re-invoked and that error reaches the caller.
C14_ConnResubscribe ==
  (WrapDone /\ FirstFailedConn) =>
    /\ Len(trace) >= 2 /\ trace[1] = "func" /\ trace[2] = "regPOST"
    /\ Count(trace, "regPOST") = 1
    /\ Count(trace, "subPOST") <= 1
    /\ IF CycleFailed
         THEN Len(funcOut) = 1 /\ IsExc(result) /\ result = lastOut
         ELSE /\ IsCycleTrace(trace)
              /\ Len(funcOut) = 2
              /\ result = funcOut[2]

C14_Witness ==
  /\ WrapDone /\ FirstFailedConn /\ wcodes = {}
  /\ IsCycleTrace(trace)
  /\ Len(funcOut) = 2 /\ funcOut[2].type = "api" /\ result = funcOut[2]

\* The running or last construction logged in afresh, and the login succeeded.
FreshLoginDone ==
  /\ InCtor
  /\ Count(trace, "loginPOST") = 1
  /\ ~(pc = "dead" /\ Last(trace) = "loginPOST")

\* C16: a construction given a cache file writes it exactly once when it logged
\* in afresh and the login succeeded, with the new token, expiry and host, and
\* not at all when it adopted the cached token or the login failed; the file is
\* read at most once, before anything else; a wrapped call, resubscribe cycle
\* included, neither reads nor writes it, and the file's content changes in no
\* other step.
C16_CacheWrites ==
  [][ /\ InCtor' =>
           /\ Count(fileOps', "write") = IF FreshLoginDone' /\ tokenFile' THEN 1 ELSE 0
           /\ Count(fileOps', "read") <= 1
           /\ \A i \in 1..Len(fileOps') : fileOps'[i] = "read" => i = 1
      /\ ~InCtor' => fileOps' = <<>>
      /\ IF Count(fileOps', "write") = Count(fileOps, "write") + 1
           THEN cacheFile' = [present |-> TRUE, token |-> tokens'["skype"],
                              expiry |-> tokenExpiry'["skype"], host |-> msgsHost']
           ELSE cacheFile' = cacheFile ]_vars

C16_Witness ==
  /\ WrapDone /\ IsCycleTrace(trace)
  /\ fileOps = <<>>
  /\ tokenFile /\ cacheFile.present /\ cacheFile.token = "s1"
  /\ tokens["skype"] = "s1"

\* The number of records a call handed to its caller.
Records(p) == IF p.type = "list" THEN Len(p.list) ELSE Cardinality(DOMAIN p.dict)

\* C17 as stated: a getMsgs or recent call that returns hands back one record
\* per raw item of the page it fetched, each decoded from its item, the list
\* of getMsgs in the server's order; nothing is dropped or deduplicated.
C17_AsStated ==
  (lastFetch.ok /\ page.type \in {"list", "dict"}) =>
    /\ Records(page) = Len(lastFetch.raw)
    /\ page.type = "list" =>
         \A i \in 1..Len(lastFetch.raw) : page.list[i].raw = lastFetch.raw[i]
    /\ page.type = "dict" =>
         \A i \in 1..Len(lastFetch.raw) :
            /\ lastFetch.raw[i].id \in DOMAIN page.dict
            /\ page.dict[lastFetch.raw[i].id] = ChatClass(lastFetch.raw[i])

\* ----------------------------------------------------------- getMac256Hash
LowerHexDigits == {"0", "1", "2", "3", "4", "5", "6", "7", "8", "9",
                   "a", "b", "c", "d", "e", "f"}

\* C15: every call of getMac256Hash returns (none raises); what it returns is
\* 32 characters long, each character a lower-case hex digit, and it is the
\* value the stages give when they are applied to the inputs alone.
C15_HashFormat ==
  /\ hpc # "raised"
  /\ hpc = "returned" =>
       /\ Len(mac256) = 32
       /\ \A i \in 1..Len(mac256) : mac256[i] \in LowerHexDigits
       /\ mac256 = Joined(Seeds(hash), cS64(Words(Padded(challenge \o appId)), Seeds(hash)))

C15_Witness ==
  /\ hpc = "returned"
  /\ challenge = <<"2", "2">> /\ appId = <<"m", "s", "m", "s", "g", "s", "@">>
  /\ hash[1] = "D"
  /\ mac256 = <<"0", "6", "b", "3", "6", "7", "0", "0", "b", "3", "7", "a", "a", "a", "5", "7",
                "0", "6", "b", "3", "6", "7", "0", "0", "b", "3", "7", "a", "a", "a", "5", "7">>

\* C18 as stated: the padded text gives one word per four characters, and word
\* i is the little-endian value of characters 4i..4i+3 of the padded text.
C18_AsStated ==
  hpc \in {"words", "seeded", "mixed", "returned"} =>
    /\ Len(pClearText) = Len(clearText) \div 4
    /\ \A i \in 0..(Len(pClearText) - 1) :
         pClearText[i + 1] =
           Ord(clearText[4 * i + 1]) + 256 * Ord(clearText[4 * i + 2])
             + 65536 * Ord(clearText[4 * i + 3]) + 16777216 * Ord(clearText[4 * i + 4])

\* C19 as stated: for i in 0..3, byte pos of seed word i is the value of the
\* two hex digits at 8i + 2pos, 8i + 2pos + 1 of the digest.
C19_AsStated ==
  hpc \in {"seeded", "mixed", "returned"} =>
    \A i \in 0..3 : \A pos \in 0..3 :
       sha256Hash[i + 1][pos + 1] =
         16 * HexVal(hash[8 * i + 2 * pos + 1]) + HexVal(hash[8 * i + 2 * pos + 2])

\* C20 as stated: the padded text is challenge + appId followed by "0"s only,
\* and its length is the least multiple of 8 that is at least the length of
\* challenge + appId.
C20_AsStated ==
  hpc \in {"padded", "words", "seeded", "mixed", "returned"} =>
    LET n == Len(challenge \o appId)
    IN /\ Len(clearText) % 8 = 0
       /\ n <= Len(clearText) /\ Len(clearText) < n + 8
       /\ SubSeq(clearText, 1, n) = challenge \o appId
       /\ \A i \in (n + 1)..Len(clearText) : clearText[i] = "0"

\* C21 as stated: a call raises exactly when challenge and appId are both
\* empty, the one input whose padded text gives fewer than two words; for
\* every other input the mixing routine gets an even number of words, two at
\* least.
C21_AsStated ==
  /\ hpc \in {"raised", "returned"} =>
       (hpc = "raised" <=> challenge \o appId = <<>>)
  /\ (hpc \in {"words", "seeded", "mixed", "returned"} /\ challenge \o appId # <<>>) =>
       (Len(pClearText) >= 2 /\ Len(pClearText) % 2 = 0)

\* ------------------------------------------------- redirects, subscribe
\* C22 as stated: a getRegToken invocation sends at most two registration
\* POSTs (it follows at most one redirect), and it stops with the response
\* whose Location names the host the request went to.
C22_AsStated ==
  [][ IssuedAmong(RegKinds) =>
        /\ RegPosts(trace') <= 2
        /\ (~IsExc(lastOut') /\ lastReq'.reply.location = lastReq'.host) => pc' # "reg" ]_vars

\* The parts of a request that the caller determines.
Sent(r) == [kind |-> r.kind, host |-> r.host, auth |-> r.auth, arg |-> r.arg,
            hdrs |-> r.hdrs, codes |-> r.codes]

C24_CycleFailure ==
  [][ (ctx = "wrap" /\ IssuedAmong({"regPOST", "regRePOST", "subPOST"}) /\ IsExc(lastOut')) =>
        /\ pc' = "ready"
        /\ result' = lastOut'
        /\ funcOut' = funcOut /\ Len(funcOut) = 1
        /\ Count(trace', "func") = 1
        /\ tokens' = tokens /\ msgsHost' = msgsHost ]_vars

\* A cycle that moved to another host, stored a registration token there and
\* then failed in subscribe with an error other than the operation's.
C24_Witness ==
  /\ WrapDone
  /\ trace = <<"func", "regPOST", "regRePOST", "subPOST">>
  /\ IsExc(result) /\ result = lastOut /\ result # funcOut[1]
  /\ lastReq.host = msgsHost /\ msgsHost # API_MSGSHOST
  /\ "reg" \in DOMAIN tokens

\* -------------------------------------------------------- group members
\* C25 as stated: whatever addMember and removeMember calls were made, every
\* id in adminIds is also in userIds, and a call whose request failed left
\* both lists as they were.
C25_AsStated ==
  /\ [](\A i \in 1..Len(adminIds) : InList(adminIds[i], userIds))
  /\ [][ IsExc(memberCall'.out) => (userIds' = userIds /\ adminIds' = adminIds) ]_vars

====
